---- MODULE Spec2Model ----
(***************************************************************************)
(* pv_track_fields_dynamic: the global write/create hooks of               *)
(* models/patcher.py (guards, configuration lookup with its in-context     *)
(* cache, before/after snapshots, change lines, chatter notes) over the    *)
(* configuration model of models/track_config.py.                          *)
(*                                                                         *)
(* The handlers are operators over a "world" record W (tables, config      *)
(* store, environment, notes posted so far); an action applies one whole   *)
(* handler to the current state.  A formatted value is a sequence of       *)
(* display tokens: "" is << >>, ", ".join(names) is the sequence of names. *)
(***************************************************************************)
EXTENDS Integers, Sequences, FiniteSets, TLC

\* ------------------------------------------------------------------ bounds
\* records in the table of the business model when an operation starts,
\* which is also the largest batch of one write/create call
MaxRec == 2
\* fields one configuration watches (length of cfg.field_ids)
MaxWatched == 2
\* wrapped calls made from the top level within one operation (SpecCache)
MaxCalls == 2

\* ------------------------------------------------------------ host schema
TECH_MODELS ==
  { "ir.module.module", "base.module.uninstall", "ir.ui.view", "ir.model",
    "ir.model.fields", "ir.actions.act_window", "ir.actions.server",
    "ir.cron", "ir.rule", "ir.config_parameter", "bus.bus" }

\* the models of the registry that the calls address: two business models
\* with chatter, a business model without chatter, a technical model
Kinds == {"res.partner", "crm.lead", "res.country", "ir.cron"}

\* the stored data fields of a model
DataFields(kind) ==
  CASE kind = "res.partner" -> {"name", "tag_ids"}
    [] kind = "crm.lead"    -> {"partner_id"}
    [] OTHER                -> {"name"}

\* ir.model.fields records a configuration may hold (the domain of field_ids
\* is a view domain: a field of another model can be among them)
WatchNames == UNION {DataFields(k) : k \in Kinds}

\* hasattr(self, "message_post"): the model inherits mail.thread
HasMessagePost(kind) == kind \in {"res.partner", "crm.lead"}

\* self._fields
ModelFields(kind) ==
  IF HasMessagePost(kind) THEN DataFields(kind) \cup {"message_ids"} ELSE DataFields(kind)

\* ir.model.fields.ttype
ttype(fname) ==
  CASE fname = "partner_id" -> "many2one"
    [] fname = "tag_ids"    -> "many2many"
    [] OTHER                -> "char"

\* ir.model.fields.field_description
field_description(fname) ==
  CASE fname = "name"       -> "Name"
    [] fname = "partner_id" -> "Customer"
    [] fname = "tag_ids"    -> "Tags"

\* values a vals dict can give a field: text, a referenced id (0 is the
\* empty recordset), an ordered recordset of tag ids
FieldValues(fname) ==
  CASE fname = "partner_id" -> {0, 1}
    [] fname = "tag_ids"    -> {<<2, 1>>, <<2>>}
    [] OTHER                -> {"a", "b"}

\* a record as the model's defaults make it, the values a create call
\* supplies instead, and a record whose tags were edited since
DefaultRec(kind) ==
  CASE kind = "res.partner" -> [name |-> "a", tag_ids |-> <<1, 2>>]
    [] kind = "crm.lead"    -> [partner_id |-> 0]
    [] OTHER                -> [name |-> "a"]

OtherRec(kind) ==
  CASE kind = "res.partner" -> [name |-> "b", tag_ids |-> <<2>>]
    [] kind = "crm.lead"    -> [partner_id |-> 1]
    [] OTHER                -> [name |-> "b"]

EditedRec(kind) ==
  IF kind = "res.partner" THEN [DefaultRec(kind) EXCEPT !.tag_ids = <<2>>]
  ELSE DefaultRec(kind)

\* display_name of a referenced record
display_name(model, id) ==
  IF model = "res.partner"
  THEN (CASE id = 1 -> "P1" [] OTHER -> "P?")
  ELSE (CASE id = 1 -> "T1" [] id = 2 -> "T2" [] OTHER -> "T?")

\* --------------------------------------------------------------- helpers
Range(s) == {s[i] : i \in DOMAIN s}

DistinctSeqs(S, n) ==
  UNION {{s \in [1..k -> S] : \A i, j \in 1..k : i # j => s[i] # s[j]} : k \in 0..n}

SeqsUpTo(S, n) == UNION {[1..k -> S] : k \in 0..n}

\* dict(rec, **vals)
Merge(rec, vals) ==
  [f \in DOMAIN rec |-> IF f \in DOMAIN vals THEN vals[f] ELSE rec[f]]

\* every vals dict over (a subset of) the data fields of a model
ValsDicts(kind) ==
  CASE kind = "res.partner" ->
         UNION {{[f \in D |-> IF f = "name" THEN n ELSE t] :
                   n \in FieldValues("name"), t \in FieldValues("tag_ids")} :
                D \in SUBSET DataFields(kind)}
    [] kind = "crm.lead" ->
         UNION {{[f \in D |-> p] : p \in FieldValues("partner_id")} :
                D \in SUBSET DataFields(kind)}
    [] OTHER ->
         UNION {{[f \in D |-> n] : n \in FieldValues("name")} :
                D \in SUBSET DataFields(kind)}

\* the vals dicts that give each supplied field the value of OtherRec
OtherDicts(kind) ==
  {[f \in D |-> OtherRec(kind)[f]] : D \in SUBSET DataFields(kind)}

RECURSIVE Insert(_, _)
Insert(x, s) ==
  IF s = <<>> THEN <<x>>
  ELSE IF x <= Head(s) THEN <<x>> \o s
  ELSE <<Head(s)>> \o Insert(x, Tail(s))

\* sorted(ids)
RECURSIVE sorted(_)
sorted(s) == IF s = <<>> THEN <<>> ELSE Insert(Head(s), sorted(Tail(s)))

RECURSIVE Flatten(_)
Flatten(ss) == IF ss = <<>> THEN <<>> ELSE Head(ss) \o Flatten(Tail(ss))

\* -------------------------------------------------------- configuration
\* a track.fields.config record; exists = FALSE is the empty recordset.
\* track_on_create is "absent" when the record has no such attribute.
NoConfig ==
  [exists |-> FALSE, active |-> FALSE, field_ids |-> <<>>,
   show_old_values |-> TRUE, show_new_values |-> TRUE,
   group_changes_per_record |-> TRUE, track_on_create |-> "absent"]

DefaultConfig ==
  [exists |-> TRUE, active |-> TRUE, field_ids |-> <<"name", "tag_ids">>,
   show_old_values |-> TRUE, show_new_values |-> TRUE,
   group_changes_per_record |-> TRUE, track_on_create |-> "absent"]

FieldIdLists == DistinctSeqs(WatchNames, MaxWatched)

Companies == {1, 2}
Keys == Companies \X Kinds

\* ------------------------------------------------------------------ guards
\* env: the context flags, whether the registry holds track.fields.config,
\* whether a search on the configuration model succeeds (store_up), the
\* company, and the context entry "_tfd_cfg_cache" ("miss": no entry).
\* mutant: the context flags are not looked at
_tfd_is_ready_registry_only(env) == env.has_model

_tfd_is_ready(env) ==
  IF env.module_uninstall \/ env.install_mode THEN FALSE ELSE env.has_model

\* ----------------------------------------------------------------- helpers
_format_value(fname, raw_value) ==
  CASE ttype(fname) = "char" -> <<raw_value>>
    [] ttype(fname) = "many2one" ->
         IF raw_value = 0 THEN <<"False">> ELSE <<display_name("res.partner", raw_value)>>
    [] ttype(fname) = "many2many" ->
         [i \in DOMAIN raw_value |-> display_name("res.partner.category", raw_value[i])]

_snapshot_for(rec, kind, field_names) ==
  [fname \in {f \in Range(field_names) : f \in ModelFields(kind)} |-> rec[fname]]

\* mutant: the ids of a multi-reference are compared in stored order
NormalizeUnsorted(fname, value) == value

\* the value _build_lines compares: the id, the sorted ids, the raw value
Normalize(fname, value) ==
  CASE ttype(fname) = "many2one"  -> value
    [] ttype(fname) = "many2many" -> sorted(value)
    [] OTHER                      -> value

ChangeLine(cfg, fname, old, new) ==
  [fmt |-> "change", field |-> field_description(fname),
   old |-> IF cfg.show_old_values THEN _format_value(fname, old) ELSE <<>>,
   new |-> IF cfg.show_new_values THEN _format_value(fname, new) ELSE <<>>]

\* mutant: equal values are not skipped
_build_lines_no_skip(cfg, before, after) ==
  LET F == cfg.field_ids
      one(fname) ==
        IF fname \notin DOMAIN before \/ fname \notin DOMAIN after THEN <<>>
        ELSE <<ChangeLine(cfg, fname, before[fname], after[fname])>>
  IN Flatten([i \in DOMAIN F |-> one(F[i])])

_build_lines(cfg, before, after) ==
  LET F == cfg.field_ids
      one(fname) ==
        IF fname \notin DOMAIN before \/ fname \notin DOMAIN after THEN <<>>
        ELSE IF Normalize(fname, before[fname]) = Normalize(fname, after[fname]) THEN <<>>
        ELSE <<ChangeLine(cfg, fname, before[fname], after[fname])>>
  IN Flatten([i \in DOMAIN F |-> one(F[i])])

\* the lines tfd_create builds for one created record
CreateLines(cfg, after) ==
  LET F == cfg.field_ids
      one(fname) ==
        IF fname \in DOMAIN after
        THEN <<[fmt |-> "create", field |-> field_description(fname),
                old |-> <<>>, new |-> _format_value(fname, after[fname])]>>
        ELSE <<>>
  IN Flatten([i \in DOMAIN F |-> one(F[i])])

\* getattr(cfg, "track_on_create", False)
TrackOnCreate(cfg) == cfg.track_on_create = "true"

\* ------------------------------------------------- config fetch (cached)
\* the search of _get_cfg: the active configuration of (company, model)
Search(W, key) ==
  IF W.configs[key].exists /\ W.configs[key].active THEN "rec" ELSE "empty"

\* the recordset a cache entry stands for, read live from the store
Deref(W, key, entry) == IF entry = "rec" THEN W.configs[key] ELSE NoConfig

\* mutant: the answer of the search is not written back to the context
_get_cfg_uncached(W, model_name) ==
  LET key == <<W.env.company, model_name>> IN
  IF ~_tfd_is_ready(W.env) THEN [w |-> W, cfg |-> NoConfig]
  ELSE IF ~W.env.store_up
  THEN [w   |-> [W EXCEPT !.queries[key].n = @ + 1,
                          !.resolves = Append(@, [key |-> key, queried |-> TRUE,
                                                  entry |-> "error"])],
        cfg |-> NoConfig]
  ELSE [w   |-> [W EXCEPT !.queries[key].n = @ + 1, !.queries[key].ok = @ + 1,
                          !.resolves = Append(@, [key |-> key, queried |-> TRUE,
                                                  entry |-> Search(W, key)])],
        cfg |-> Deref(W, key, Search(W, key))]

_get_cfg(W, model_name) ==
  LET key == <<W.env.company, model_name>> IN
  IF ~_tfd_is_ready(W.env) THEN [w |-> W, cfg |-> NoConfig]
  ELSE IF W.env.cache[key] # "miss"
  THEN [w   |-> [W EXCEPT !.resolves = Append(@, [key |-> key, queried |-> FALSE,
                                                   entry |-> W.env.cache[key]])],
        cfg |-> Deref(W, key, W.env.cache[key])]
  ELSE IF ~W.env.store_up
  THEN [w   |-> [W EXCEPT !.queries[key].n = @ + 1,
                          !.resolves = Append(@, [key |-> key, queried |-> TRUE,
                                                  entry |-> "error"])],
        cfg |-> NoConfig]
  ELSE [w   |-> [W EXCEPT !.queries[key].n = @ + 1, !.queries[key].ok = @ + 1,
                          !.env.cache[key] = Search(W, key),
                          !.resolves = Append(@, [key |-> key, queried |-> TRUE,
                                                  entry |-> Search(W, key)])],
        cfg |-> Deref(W, key, Search(W, key))]

\* ------------------------------------------------------- wrapped calls
\* A call: op ("write"/"create"), kind (self._name), ids (self, write),
\* vals (write), vals_list (create), whether the original operation raises,
\* whether message_post raises, and the wrapped calls the original operation
\* itself makes (nested).
\* A result: the world after the call, whether the call returned and what,
\* who raised ("none", "orig", "post"), whether every guard passed, the
\* arguments of each invocation of the original operation and what it
\* returned, the snapshots and the lines built per record.
NoSnap == [i \in {} |-> <<>>]

Result(W, returned, ret, raised, tracked, orig_args, orig_ret, ids, before, after, lines) ==
  [w |-> W, returned |-> returned, ret |-> ret, raised |-> raised,
   tracked |-> tracked, orig_args |-> orig_args, orig_ret |-> orig_ret,
   recs |-> ids, before |-> before, after |-> after, lines |-> lines]

RECURSIVE Handle(_, _)
RECURSIVE RunNested(_, _)

\* rec.message_post(body=...): appends the note to the chatter of rec
message_post(W, kind, id, body) ==
  [W EXCEPT !.posted = Append(@, [kind |-> kind, on |-> id, body |-> body])]

\* posts the notes in order; the first post that raises ends the call
RECURSIVE PostAll(_, _, _, _)
PostAll(W, kind, notes, post_raises) ==
  IF notes = <<>> THEN [w |-> W, raised |-> "none"]
  ELSE IF post_raises THEN [w |-> W, raised |-> "post"]
  ELSE PostAll(message_post(W, kind, Head(notes).on, Head(notes).body),
               kind, Tail(notes), post_raises)

\* BaseModel._tfd_orig_write(self, vals)
orig_write(W, call) ==
  IF call.orig_raises THEN [w |-> W, ret |-> FALSE, raised |-> "orig"]
  ELSE LET W1 == [W EXCEPT !.store[call.kind] =
                    [i \in DOMAIN @ |-> IF i \in Range(call.ids)
                                        THEN Merge(@[i], call.vals) ELSE @[i]]]
           N  == RunNested(W1, call.nested)
       IN [w |-> N.w, ret |-> TRUE, raised |-> IF N.raised = "none" THEN "none" ELSE "orig"]

\* BaseModel._tfd_orig_create(self, vals_list)
orig_create(W, call) ==
  IF call.orig_raises THEN [w |-> W, ret |-> <<>>, raised |-> "orig"]
  ELSE LET n  == Len(W.store[call.kind])
           W1 == [W EXCEPT !.store[call.kind] =
                    @ \o [i \in DOMAIN call.vals_list |-> Merge(DefaultRec(call.kind), call.vals_list[i])]]
           N  == RunNested(W1, call.nested)
       IN [w |-> N.w, ret |-> [i \in DOMAIN call.vals_list |-> n + i],
           raised |-> IF N.raised = "none" THEN "none" ELSE "orig"]

\* mutant: every grouped note goes to the first record of the call
GroupedNotesOnFirst(recs, lines) ==
  Flatten([k \in DOMAIN recs |->
             IF lines[recs[k]] # <<>>
             THEN <<[on |-> recs[1], body |-> <<[title |-> 0, lines |-> lines[recs[k]]]>>]>>
             ELSE <<>>])

\* the grouped notes: one per record with lines, in the order of recs
GroupedNotes(recs, lines) ==
  Flatten([k \in DOMAIN recs |->
             IF lines[recs[k]] # <<>>
             THEN <<[on |-> recs[k], body |-> <<[title |-> 0, lines |-> lines[recs[k]]]>>]>>
             ELSE <<>>])

\* the ungrouped note: the blocks of all records with lines, on recs[0]
BlockNotes(recs, lines) ==
  LET blocks == Flatten([k \in DOMAIN recs |->
                           IF lines[recs[k]] # <<>>
                           THEN <<[title |-> recs[k], lines |-> lines[recs[k]]]>>
                           ELSE <<>>])
  IN IF blocks # <<>> THEN <<[on |-> recs[1], body |-> blocks]>> ELSE <<>>

\* mutant: the wrapper catches the exception of the original operation
PropagateSwallowed(o, args, recs, before) ==
  Result(o.w, TRUE, o.ret, "none", TRUE, <<args>>, o.ret, recs, before, NoSnap, NoSnap)

\* an exception of the original operation leaves the wrapper as it is (no
\* try/except around the call): nothing after the call runs
Propagate(o, args, recs, before) ==
  Result(o.w, FALSE, o.ret, o.raised, TRUE, <<args>>, o.ret, recs, before, NoSnap, NoSnap)

\* the return of a bail-out: return BaseModel._tfd_orig_write(self, vals)
PassThrough(o, args) ==
  Result(o.w, o.raised = "none", o.ret, o.raised, FALSE, <<args>>, o.ret,
         <<>>, NoSnap, NoSnap, NoSnap)

tfd_write(W, call) ==
  LET args == [self |-> call.ids, vals |-> call.vals] IN
  IF call.kind \in TECH_MODELS THEN PassThrough(orig_write(W, call), args)
  ELSE IF call.ids = <<>> \/ ~_tfd_is_ready(W.env)
  THEN PassThrough(orig_write(W, call), args)
  ELSE
  LET g   == _get_cfg(W, call.kind)
      cfg == g.cfg
  IN
  IF ~cfg.exists \/ cfg.field_ids = <<>> THEN PassThrough(orig_write(g.w, call), args)
  ELSE IF ~(HasMessagePost(call.kind) /\ "message_ids" \in ModelFields(call.kind))
  THEN PassThrough(orig_write(g.w, call), args)
  ELSE
  LET tracked_names == SelectSeq(cfg.field_ids, LAMBDA f : f \in ModelFields(call.kind)) IN
  IF tracked_names = <<>> THEN PassThrough(orig_write(g.w, call), args)
  ELSE
  LET before_by_id == [i \in Range(call.ids) |->
                         _snapshot_for(g.w.store[call.kind][i], call.kind, tracked_names)]
      o            == orig_write(g.w, call)
      after_by_id  == [i \in Range(call.ids) |->
                         _snapshot_for(o.w.store[call.kind][i], call.kind, tracked_names)]
      lines        == [i \in Range(call.ids) |->
                         _build_lines(cfg, before_by_id[i], after_by_id[i])]
      notes        == IF cfg.group_changes_per_record
                      THEN GroupedNotes(call.ids, lines)
                      ELSE BlockNotes(call.ids, lines)
      p            == PostAll(o.w, call.kind, notes, call.post_raises)
  IN
  IF o.raised # "none" THEN Propagate(o, args, call.ids, before_by_id)
  ELSE Result(p.w, p.raised = "none", o.ret, p.raised, TRUE, <<args>>, o.ret,
              call.ids, before_by_id, after_by_id, lines)

tfd_create(W, call) ==
  LET args == [self |-> <<>>, vals |-> call.vals_list] IN
  IF call.kind \in TECH_MODELS THEN PassThrough(orig_create(W, call), args)
  ELSE IF ~_tfd_is_ready(W.env) THEN PassThrough(orig_create(W, call), args)
  ELSE
  LET g   == _get_cfg(W, call.kind)
      cfg == g.cfg
  IN
  IF ~cfg.exists \/ cfg.field_ids = <<>> THEN PassThrough(orig_create(g.w, call), args)
  ELSE IF ~(HasMessagePost(call.kind) /\ "message_ids" \in ModelFields(call.kind))
  THEN PassThrough(orig_create(g.w, call), args)
  ELSE
  LET tracked_names == SelectSeq(cfg.field_ids, LAMBDA f : f \in ModelFields(call.kind)) IN
  IF tracked_names = <<>> THEN PassThrough(orig_create(g.w, call), args)
  ELSE
  LET o     == orig_create(g.w, call)
      recs  == o.ret
      after == [i \in Range(recs) |->
                  _snapshot_for(o.w.store[call.kind][i], call.kind, tracked_names)]
      lines == [i \in Range(recs) |->
                  IF TrackOnCreate(cfg) THEN CreateLines(cfg, after[i]) ELSE <<>>]
      notes == IF ~TrackOnCreate(cfg) THEN <<>>
               ELSE IF cfg.group_changes_per_record
               THEN GroupedNotes(recs, lines)
               ELSE BlockNotes(recs, lines)
      p     == PostAll(o.w, call.kind, notes, call.post_raises)
  IN
  IF o.raised # "none" THEN Propagate(o, args, <<>>, NoSnap)
  ELSE Result(p.w, p.raised = "none", o.ret, p.raised, TRUE, <<args>>, o.ret,
              recs, NoSnap, after, lines)

\* BaseModel.write / BaseModel.create after _register_hook
Handle(W, call) ==
  IF call.op = "write" THEN tfd_write(W, call) ELSE tfd_create(W, call)

RunNested(W, calls) ==
  IF calls = <<>> THEN [w |-> W, raised |-> "none"]
  ELSE LET r == Handle(W, Head(calls)) IN
       IF r.raised # "none" THEN [w |-> r.w, raised |-> r.raised]
       ELSE RunNested(r.w, Tail(calls))

\* ------------------------------------------------------------------ state
VARIABLES
  store,    \* store[kind]: the table of the model, record id = index
  configs,  \* configs[<<company, kind>>]: the track.fields.config record
  env,      \* the environment of the running operation (context, company)
  queries,  \* queries[key]: searches on the configuration model in this operation
            \* (n: made, ok: answered)
  ncalls,   \* wrapped calls made from the top level in this operation
  last      \* the last top-level call and its result

vars == <<store, configs, env, queries, ncalls, last>>

ReadyEnv(company) ==
  [install_mode |-> FALSE, module_uninstall |-> FALSE, has_model |-> TRUE,
   store_up |-> TRUE, company |-> company, cache |-> [k \in Keys |-> "miss"]]

\* every environment an operation can start in
Envs ==
  {[install_mode |-> i, module_uninstall |-> u, has_model |-> h, store_up |-> s,
    company |-> c, cache |-> [k \in Keys |-> "miss"]] :
     i \in BOOLEAN, u \in BOOLEAN, h \in BOOLEAN, s \in BOOLEAN, c \in Companies}

\* the configurations an operator can save with the fields of
\* track_config.py, and the two ways there is none in force
SavedConfigs ==
  {[exists |-> TRUE, active |-> TRUE, field_ids |-> F,
    show_old_values |-> o, show_new_values |-> n,
    group_changes_per_record |-> g, track_on_create |-> "absent"] :
     F \in FieldIdLists, o \in BOOLEAN, n \in BOOLEAN, g \in BOOLEAN}
  \cup {NoConfig, [DefaultConfig EXCEPT !.active = FALSE]}

\* tables at the start: partner records alternate between the default and
\* the edited record; the other tables hold one default record
InitStore ==
  [kind \in Kinds |->
     IF kind = "res.partner"
     THEN [i \in 1..MaxRec |-> IF i % 2 = 1 THEN DefaultRec(kind) ELSE EditedRec(kind)]
     ELSE <<DefaultRec(kind)>>]

NoQueries == [key \in Keys |-> [n |-> 0, ok |-> 0]]

NoCall ==
  [op |-> "none", kind |-> "res.partner", ids |-> <<>>, vals |-> <<>>, vals_list |-> <<>>,
   orig_raises |-> FALSE, post_raises |-> FALSE, nested |-> <<>>]

NoLast ==
  [call |-> NoCall, returned |-> FALSE, ret |-> FALSE, raised |-> "none",
   tracked |-> FALSE, orig_args |-> <<>>, orig_ret |-> FALSE, recs |-> <<>>,
   before |-> NoSnap, after |-> NoSnap, lines |-> NoSnap, posted |-> <<>>,
   resolves |-> <<>>, cfg |-> NoConfig]

\* the outcomes the host can give one call: all well, the original operation
\* raises, message_post raises
Outcomes == {<<FALSE, FALSE>>, <<TRUE, FALSE>>, <<FALSE, TRUE>>}

WriteCall(k, ids, v, oc, n) ==
  [op |-> "write", kind |-> k, ids |-> ids, vals |-> v, vals_list |-> <<>>,
   orig_raises |-> oc[1], post_raises |-> oc[2], nested |-> n]

CreateCall(k, vl, oc, n) ==
  [op |-> "create", kind |-> k, ids |-> <<>>, vals |-> <<>>, vals_list |-> vl,
   orig_raises |-> oc[1], post_raises |-> oc[2], nested |-> n]

World ==
  [store |-> store, configs |-> configs, env |-> env, queries |-> queries,
   posted |-> <<>>, resolves |-> <<>>]

\* one top-level call of BaseModel.write / BaseModel.create
Apply(call) ==
  LET r == Handle(World, call) IN
  /\ store' = r.w.store
  /\ env' = r.w.env
  /\ queries' = r.w.queries
  /\ ncalls' = ncalls + 1
  /\ last' = [call |-> call, returned |-> r.returned, ret |-> r.ret, raised |-> r.raised,
              tracked |-> r.tracked, orig_args |-> r.orig_args, orig_ret |-> r.orig_ret,
              recs |-> r.recs, before |-> r.before, after |-> r.after, lines |-> r.lines,
              posted |-> r.w.posted, resolves |-> r.w.resolves,
              cfg |-> configs[<<env.company, call.kind>>]]
  /\ UNCHANGED configs

\* ---------------------------------------------------------------- actions
\* records.write(vals) on any recordset of existing records
TfdWrite ==
  /\ ncalls = 0
  /\ \E k \in Kinds : \E ids \in DistinctSeqs(1..Len(store[k]), MaxRec) :
       \E v \in ValsDicts(k) : \E oc \in Outcomes :
         Apply(WriteCall(k, ids, v, oc, <<>>))

\* Model.create(vals_list)
TfdCreate ==
  /\ ncalls = 0
  /\ \E k \in Kinds : \E vl \in SeqsUpTo(OtherDicts(k), MaxRec) : \E oc \in Outcomes :
       Apply(CreateCall(k, vl, oc, <<>>))

\* one operation on a database whose configuration the operator saved, or
\* one in an environment that is not ready (install, uninstall, registry
\* without the model, configuration model unreadable)
InitTracking ==
  /\ store = InitStore
  /\ \E c \in SavedConfigs : configs = [key \in Keys |-> c]
  /\ env = ReadyEnv(1)

InitDegraded ==
  /\ store = InitStore
  /\ configs = [key \in Keys |-> DefaultConfig]
  /\ env \in {e \in Envs : e.company = 1}

Init ==
  /\ InitTracking \/ InitDegraded
  /\ queries = NoQueries
  /\ ncalls = 0
  /\ last = NoLast

Next == TfdWrite \/ TfdCreate

Spec == Init /\ [][Next]_vars

\* ------------------------------------------- create tracking switched on
\* A database whose track.fields.config records carry the attribute that
\* tfd_create reads with getattr(cfg, "track_on_create", False).
ExtendedConfigs ==
  {[exists |-> TRUE, active |-> TRUE, field_ids |-> F,
    show_old_values |-> TRUE, show_new_values |-> TRUE,
    group_changes_per_record |-> g, track_on_create |-> t] :
     F \in FieldIdLists, g \in BOOLEAN, t \in {"true", "false"}}

InitExt ==
  /\ store = InitStore
  /\ \E c \in ExtendedConfigs : configs = [key \in Keys |-> c]
  /\ env = ReadyEnv(1)
  /\ queries = NoQueries
  /\ ncalls = 0
  /\ last = NoLast

NextExt == TfdCreate

SpecExt == InitExt /\ [][NextExt]_vars

\* ------------------------------------- several calls within one operation
\* the business models the calls of the operation address
OpKinds == {"res.partner", "crm.lead"}

\* environments a request starts in once the module is installed
OpEnvs == {[ReadyEnv(c) EXCEPT !.store_up = s] : c \in Companies, s \in BOOLEAN}

OpWriteCall(k, n) ==
  WriteCall(k, <<1>>, [f \in DataFields(k) |-> DefaultRec(k)[f]], <<FALSE, FALSE>>, n)

OpCreateCall(k, n) == CreateCall(k, <<>>, <<FALSE, FALSE>>, n)

\* the wrapped calls business code makes from inside an original operation
NestedCalls ==
  {<<>>} \cup {<<OpWriteCall(k, <<>>)>> : k \in OpKinds}
         \cup {<<OpCreateCall(k, <<>>)>> : k \in OpKinds}

\* a top-level write (of the stored values) within the operation, whose
\* original operation may make one wrapped call of its own
OpWrite ==
  /\ ncalls < MaxCalls
  /\ \E k \in OpKinds : \E n \in NestedCalls : Apply(OpWriteCall(k, n))

\* a top-level create within the operation (of no record: the tables stay
\* as they are)
OpCreate ==
  /\ ncalls < MaxCalls
  /\ \E k \in OpKinds : \E n \in NestedCalls : Apply(OpCreateCall(k, n))

\* a new top-level operation (request): a fresh environment and context
NewOperation ==
  /\ ncalls > 0
  /\ env' \in OpEnvs
  /\ queries' = NoQueries
  /\ ncalls' = 0
  /\ last' = NoLast
  /\ UNCHANGED <<store, configs>>

\* the configuration model becomes unreadable, or readable again, while the
\* operation runs
StoreAvailability ==
  /\ ncalls < MaxCalls
  /\ env' = [env EXCEPT !.store_up = ~@]
  /\ UNCHANGED <<store, configs, queries, ncalls, last>>

\* another transaction archives or restores the partner configuration of the
\* company
ConfigChange ==
  /\ ncalls < MaxCalls
  /\ configs' = [configs EXCEPT ![<<env.company, "res.partner">>].active = ~@]
  /\ UNCHANGED <<store, env, queries, ncalls, last>>

InitCache ==
  /\ store = InitStore
  /\ configs = [key \in Keys |-> IF key[2] = "crm.lead" THEN NoConfig ELSE DefaultConfig]
  /\ env \in OpEnvs
  /\ queries = NoQueries
  /\ ncalls = 0
  /\ last = NoLast

NextCache == OpWrite \/ OpCreate \/ NewOperation \/ StoreAvailability \/ ConfigChange

SpecCache == InitCache /\ [][NextCache]_vars

\* ----------------------------------------------------------------- claims
\* what the claims speak of, read off the state
Called(op) == last.call.op = op
AnyCall == last.call.op # "none"
Kind == last.call.kind
Cfg == last.cfg

\* the call's own arguments, as the original operation must receive them
CallArgs ==
  IF Called("write") THEN [self |-> last.call.ids, vals |-> last.call.vals]
  ELSE [self |-> <<>>, vals |-> last.call.vals_list]

\* one of the five guards of the claim fails for the last call
GuardFails ==
  \/ Kind \in TECH_MODELS
  \/ env.install_mode \/ env.module_uninstall
  \/ ~(Cfg.exists /\ Cfg.active)
  \/ ~HasMessagePost(Kind)
  \/ Range(Cfg.field_ids) \cap DataFields(Kind) = {}

\* a field's value differs: membership for a multi-reference, the value otherwise
Differs(fname, old, new) ==
  IF ttype(fname) = "many2many" THEN Range(old) # Range(new) ELSE old # new

\* the labels of a sequence of lines
Labels(lines) == [j \in DOMAIN lines |-> lines[j].field]

\* the watched fields of the model in declared order that satisfy P
WatchedWhere(cfg, kind, P(_)) ==
  SelectSeq(cfg.field_ids, LAMBDA f : f \in DataFields(kind) /\ P(f))

FieldLabels(fs) == [j \in DOMAIN fs |-> field_description(fs[j])]

RECURSIVE SumLen(_, _)
SumLen(recs, lines) ==
  IF recs = <<>> THEN 0 ELSE Len(lines[Head(recs)]) + SumLen(Tail(recs), lines)

C2_PostFailureNeverReachesCaller ==
  (AnyCall /\ last.call.post_raises /\ ~last.call.orig_raises) =>
    (last.returned /\ last.raised = "none" /\ last.ret = last.orig_ret)

\* C3: when the original operation raises in a call that passed every guard,
\* no note is posted and the caller gets that exception; a note is posted only
\* by a call whose original operation returned.
C3_NoNoteWhenMutationFails ==
  /\ (AnyCall /\ ~GuardFails /\ last.tracked /\ last.call.orig_raises) =>
       (last.posted = <<>> /\ ~last.returned /\ last.raised = "orig")
  /\ (last.posted # <<>>) => (~last.call.orig_raises /\ Len(last.orig_args) = 1)

C3_Witness ==
  /\ Called("write") /\ last.tracked /\ last.call.orig_raises /\ ~GuardFails
  /\ last.call.ids # <<>> /\ last.raised = "orig"
  /\ \E f \in DOMAIN last.call.vals : f \in Range(Cfg.field_ids)

C5_SameValuesNoLinesNoNotes ==
  [][ ( /\ last'.call.op = "write"
        /\ \A id \in Range(last'.call.ids) : \A f \in DOMAIN last'.call.vals :
             store[last'.call.kind][id][f] = last'.call.vals[f] ) =>
        ( /\ last'.posted = <<>>
          /\ \A id \in DOMAIN last'.lines : last'.lines[id] = <<>> ) ]_vars

\* a write of the stored name to two records whose name is watched, not
\* grouped
C5_Witness ==
  /\ Called("write") /\ last.tracked /\ last.returned
  /\ ~Cfg.group_changes_per_record
  /\ Len(last.recs) >= 2
  /\ DOMAIN last.call.vals = {"name"}
  /\ \A id \in Range(last.recs) :
       /\ "name" \in DOMAIN last.before[id]
       /\ last.before[id].name = last.call.vals.name

\* C6: grouped, a write posts one note on each record that has lines, in the
\* order of the records of the call, holding that record's lines, which follow
\* the declared order of the watched fields.
C6_GroupedOneNotePerRecord ==
  (Called("write") /\ last.tracked /\ last.returned /\ Cfg.group_changes_per_record) =>
    LET with == SelectSeq(last.recs, LAMBDA id : last.lines[id] # <<>>) IN
    /\ Len(last.posted) = Len(with)
    /\ \A k \in DOMAIN with :
         /\ last.posted[k].on = with[k]
         /\ last.posted[k].kind = Kind
         /\ Len(last.posted[k].body) = 1
         /\ last.posted[k].body[1].lines = last.lines[with[k]]
    /\ \A id \in Range(last.recs) :
         Labels(last.lines[id]) =
           FieldLabels(WatchedWhere(Cfg, Kind,
             LAMBDA f : Differs(f, last.before[id][f], last.after[id][f])))

\* a grouped write over two records, given in the order 2, 1, that changed
\* both and two fields of one of them
C6_Witness ==
  /\ Called("write") /\ last.tracked /\ last.returned /\ Cfg.group_changes_per_record
  /\ Len(last.recs) >= 2 /\ last.recs[1] > last.recs[2]
  /\ Len(last.posted) = 2
  /\ \E id \in Range(last.recs) : Len(last.lines[id]) = 2
  /\ Cfg.field_ids[1] = "tag_ids"

\* C7 (as claimed): not grouped, a write posts as many notes as it built
\* lines, each on the record whose field changed.
C7_UngroupedOneNotePerLine ==
  (Called("write") /\ last.tracked /\ last.returned /\ ~Cfg.group_changes_per_record) =>
    /\ Len(last.posted) = SumLen(last.recs, last.lines)
    /\ \A k \in DOMAIN last.posted : last.lines[last.posted[k].on] # <<>>
    /\ \A id \in Range(last.recs) :
         last.lines[id] # <<>> => \E k \in DOMAIN last.posted : last.posted[k].on = id

\* C8 (as claimed): with show_old_values and show_new_values both false a
\* write builds no line and posts no note.
C8_NoLineWhenBothSidesHidden ==
  (Called("write") /\ last.tracked /\ last.returned
     /\ ~Cfg.show_old_values /\ ~Cfg.show_new_values) =>
    /\ \A id \in Range(last.recs) : last.lines[id] = <<>>
    /\ last.posted = <<>>

C10_AtMostOneQueryPerKey ==
  \A key \in Keys : queries[key].n <= 1

AllMiss(e) == \A key \in Keys : e.cache[key] = "miss"

\* C10 (amended): within one operation at most one search per key is
\* answered, its answer is the cache entry, every later resolve of the key
\* returns that entry without a search, and an operation starts with no
\* entry; an entry changes only when a new operation starts.
C10_CachedAfterFirstAnswer ==
  /\ [](/\ \A key \in Keys :
             /\ queries[key].ok <= 1
             /\ (queries[key].ok = 1) <=> (env.cache[key] # "miss")
         /\ \A j \in DOMAIN last.resolves :
             LET r == last.resolves[j] IN
             /\ r.queried => (r.entry = "error" \/ r.entry = env.cache[r.key])
             /\ ~r.queried => (r.entry = env.cache[r.key] /\ r.entry # "miss")
         /\ ncalls = 0 => (AllMiss(env) /\ queries = NoQueries))
  /\ [][ \A key \in Keys :
           env.cache[key] # "miss" =>
             \/ env'.cache[key] = env.cache[key] /\ queries'[key] = queries[key]
             \/ AllMiss(env') /\ queries' = NoQueries /\ ncalls' = 0 ]_vars

\* an operation whose second call resolved the partner key from the cache
\* after the configuration was archived, and whose nested call resolved
\* another key
C10_Witness ==
  /\ ncalls = 2
  /\ Len(last.resolves) = 2
  /\ ~last.resolves[1].queried /\ last.resolves[1].entry = "rec"
  /\ last.resolves[1].key[2] = "res.partner"
  /\ ~configs[last.resolves[1].key].active
  /\ last.resolves[2].queried /\ last.resolves[2].key[2] = "crm.lead"

====
